---- MODULE Spec2Model ----
(***************************************************************************)
(* Entity-component framework of SimpleArkanoid (namespace                 *)
(* CompositionArkanoid): component type registry, Entity, Manager, the     *)
(* behaviour components and the game loop that drives them.                *)
(*                                                                         *)
(* Lengths and velocities are kept in tenths of a pixel so that           *)
(* ballVelocity 0.5 and paddleVelocity 0.6 are the integers 5 and 6.       *)
(***************************************************************************)
EXTENDS Integers, Sequences, FiniteSets, TLC

\* ------------------------------------------------------------------ bounds
\* Entities a client of the Manager creates.
MaxEntities == 2
\* Entries a client lets one group index grow to.
MaxGroupLen == 2

\* ------------------------------------------------------- program constants
maxComponents == 32
maxGroups == 32

ComponentTypes == {"CPosition", "CPhysics", "CCircle", "CRectangle", "CPaddleControl"}

\* nullptr
NULL == "null"
\* The storage of an Entity after its unique_ptr was erased.
Freed == [freed |-> TRUE]
IsFreed(x) == "freed" \in DOMAIN x

VARIABLES
    lastID,          \* Internal::getUniqueComponentID()::lastID
    typeID,          \* getComponentTypeID<T>()::typeID, for the types T whose static is initialised
    entities,        \* Manager::entities, as the sequence of owned entity ids
    groupedEntities, \* Manager::groupedEntities, group -> sequence of Entity*
    heap,            \* every Entity ever allocated: its fields, or Freed
    status,          \* "ok", "assert" (assertion failure, abort), "crashed", "corrupt"
    lastOp,          \* the last call: [op, arg, ret]
    game             \* the Game object and the position of run() in its loop

vars == <<lastID, typeID, entities, groupedEntities, heap, status, lastOp, game>>

Range(s) == {s[i] : i \in 1..Len(s)}

\* The record of a call, kept in lastOp.
Call(op, arg, ret) == [op |-> op, arg |-> arg, ret |-> ret]

\* ---------------------------------------------------------------- registry
Registry == [typeID |-> typeID, lastID |-> lastID]

\* The mutant of getUniqueComponentID that increments before it returns.
getUniqueComponentIDPre(R) ==
    [ret |-> R.lastID + 1, R |-> [R EXCEPT !.lastID = @ + 1]]

getUniqueComponentID(R) ==
    [ret |-> R.lastID, R |-> [R EXCEPT !.lastID = @ + 1]]

getComponentTypeID(R, T) ==
    IF T \notin DOMAIN R.typeID
    THEN LET u == getUniqueComponentID(R)
         IN  [ret |-> u.ret, R |-> [u.R EXCEPT !.typeID = (T :> u.ret) @@ @]]
    ELSE [ret |-> R.typeID[T], R |-> R]

\* ------------------------------------------------------------------ Entity
\* Entity(Manager&): alive{true}, empty vector, zeroed bitsets; componentArray is
\* left uninitialised, modelled as a function defined on the written slots only.
NewEntity ==
    [alive |-> TRUE, components |-> <<>>, componentArray |-> <<>>,
     componentBitset |-> {}, groupBitset |-> {}]

isAlive(ent) == ent.alive

\* The mutant of destroy that flips the flag.
destroyToggle(ent) == [ent EXCEPT !.alive = ~@]

destroy(ent) == [ent EXCEPT !.alive = FALSE]

\* componentBitset[getComponentTypeID<T>()]; the bitset is not range-checked.
hasComponent(ent, R, T) ==
    LET g == getComponentTypeID(R, T)
    IN  [ret |-> g.ret \in ent.componentBitset, R |-> g.R,
         inRange |-> g.ret < maxComponents]

\* The mutant of getComponent that returns the component attached last.
getComponentNewest(ent, R, T) ==
    LET h == hasComponent(ent, R, T)
    IN  IF ~h.ret THEN [status |-> "assert", R |-> h.R, ret |-> NULL]
        ELSE [status |-> "ok", R |-> h.R, ret |-> Len(ent.components)]

getComponent(ent, R, T) ==
    LET asserted(h) ==
            IF ~h.inRange THEN [status |-> "corrupt", R |-> h.R, ret |-> NULL]
            ELSE IF ~h.ret THEN [status |-> "assert", R |-> h.R, ret |-> NULL]
            ELSE [status |-> "ok", R |-> h.R, ret |-> ent.componentArray[h.R.typeID[T]]]
    IN  asserted(hasComponent(ent, R, T))

\* groupBitset[mGroup]; defined for mGroup < maxGroups only.
hasGroup(ent, mGroup) == mGroup \in ent.groupBitset

delGroup(ent, mGroup) == [ent EXCEPT !.groupBitset = @ \ {mGroup}]

\* Entity::addGroup, the entity's side: groupBitset[mGroup] = true
addGroup(ent, mGroup) == [ent EXCEPT !.groupBitset = @ \cup {mGroup}]

\* ------------------------------------------------------------- components
Vec0 == <<0, 0>>

CPosition(mPosition) == [type |-> "CPosition", position |-> mPosition]

CPhysics(mHalfSize) ==
    [type |-> "CPhysics", cPosition |-> NULL, velocity |-> Vec0,
     halfSize |-> mHalfSize, onOutOfBounds |-> NULL]

CCircle(mRadius) ==
    [type |-> "CCircle", cPosition |-> NULL, shapePos |-> Vec0, radius |-> mRadius]

CRectangle(mHalfSize) ==
    [type |-> "CRectangle", cPosition |-> NULL, shapePos |-> Vec0,
     size |-> <<2 * mHalfSize[1], 2 * mHalfSize[2]>>]

CPaddleControl == [type |-> "CPaddleControl", cPhysics |-> NULL]

\* The sibling a component's init() resolves with entity->getComponent<>().
InitSibling(T) ==
    CASE T = "CPhysics" -> "CPosition"
      [] T = "CCircle" -> "CPosition"
      [] T = "CRectangle" -> "CPosition"
      [] T = "CPaddleControl" -> "CPhysics"
      [] OTHER -> NULL

\* c->init() of the component at index i of ent.components.
init(ent, R, i) ==
    LET T == ent.components[i].type
        S == InitSibling(T)
        resolved(g) ==
            IF g.status # "ok" THEN [status |-> g.status, ent |-> ent, R |-> g.R]
            ELSE IF T = "CPaddleControl"
            THEN [status |-> "ok", R |-> g.R,
                  ent |-> [ent EXCEPT !.components[i].cPhysics = g.ret]]
            ELSE [status |-> "ok", R |-> g.R,
                  ent |-> [ent EXCEPT !.components[i].cPosition = g.ret]]
    IN  IF S = NULL THEN [status |-> "ok", ent |-> ent, R |-> R]
        ELSE resolved(getComponent(ent, R, S))

\* The mutant of addComponent that has no assert(!hasComponent<T>()).
addComponentNoAssert(ent, R, T, c) ==
    LET i == Len(ent.components) + 1
        emplaced(id) == [ent EXCEPT !.components = Append(@, c),
                                    !.componentArray = (id :> i) @@ @,
                                    !.componentBitset = @ \cup {id}]
        initialised(r) == [status |-> r.status, ent |-> r.ent, R |-> r.R, ret |-> i]
        unchecked(h) == initialised(init(emplaced(h.R.typeID[T]), h.R, i))
    IN  unchecked(hasComponent(ent, R, T))

\* The mutant of addComponent that runs c->init() before it records the slot
\* and the bit of T.
addComponentInitFirst(ent, R, T, c) ==
    LET i == Len(ent.components) + 1
        appended == [ent EXCEPT !.components = Append(@, c)]
        recorded(r, id) ==
            IF r.status # "ok" THEN [status |-> r.status, ent |-> r.ent, R |-> r.R, ret |-> i]
            ELSE [status |-> "ok", R |-> r.R, ret |-> i,
                  ent |-> [r.ent EXCEPT !.componentArray = (id :> i) @@ @,
                                        !.componentBitset = @ \cup {id}]]
        asserted(h) ==
            IF ~h.inRange THEN [status |-> "corrupt", ent |-> ent, R |-> h.R, ret |-> NULL]
            ELSE IF h.ret THEN [status |-> "assert", ent |-> ent, R |-> h.R, ret |-> NULL]
            ELSE recorded(init(appended, h.R, i), h.R.typeID[T])
    IN  asserted(hasComponent(ent, R, T))

\* Entity::addComponent<T>(args): c is the constructed T; the reference returned
\* is the index of the new element of components.
addComponent(ent, R, T, c) ==
    LET i == Len(ent.components) + 1
        emplaced(id) == [ent EXCEPT !.components = Append(@, c),
                                    !.componentArray = (id :> i) @@ @,
                                    !.componentBitset = @ \cup {id}]
        initialised(r) == [status |-> r.status, ent |-> r.ent, R |-> r.R, ret |-> i]
        asserted(h) ==
            IF ~h.inRange THEN [status |-> "corrupt", ent |-> ent, R |-> h.R, ret |-> NULL]
            ELSE IF h.ret THEN [status |-> "assert", ent |-> ent, R |-> h.R, ret |-> NULL]
            ELSE initialised(init(emplaced(h.R.typeID[T]), h.R, i))
    IN  asserted(hasComponent(ent, R, T))

\* -------------------------------------------------- game constants (tenths)
windowWidth == 8000
windowHeight == 6000
ballVelocity == 5
paddleVelocity == 6

KeyNames == {"Left", "Right", "Escape"}

Abs(x) == IF x < 0 THEN -x ELSE x

\* CPhysics accessors, on the components of one entity; ph is the CPhysics index.
physX(comps, ph) == comps[comps[ph].cPosition].position[1]
physY(comps, ph) == comps[comps[ph].cPosition].position[2]
physLeft(comps, ph) == physX(comps, ph) - comps[ph].halfSize[1]
physRight(comps, ph) == physX(comps, ph) + comps[ph].halfSize[1]
physTop(comps, ph) == physY(comps, ph) - comps[ph].halfSize[2]
physBottom(comps, ph) == physY(comps, ph) + comps[ph].halfSize[2]

\* The mutant of onOutOfBounds that multiplies the velocity itself by the side.
onOutOfBoundsNoAbs(comps, ph, mSide) ==
    LET v  == comps[ph].velocity
        vx == IF mSide[1] # 0 THEN v[1] * mSide[1] ELSE v[1]
        vy == IF mSide[2] # 0 THEN v[2] * mSide[2] ELSE v[2]
    IN  [comps EXCEPT ![ph].velocity = <<vx, vy>>]

\* The lambda createBall installs: it captures the ball's own CPhysics.
onOutOfBounds(comps, ph, mSide) ==
    LET v  == comps[ph].velocity
        vx == IF mSide[1] # 0 THEN Abs(v[1]) * mSide[1] ELSE v[1]
        vy == IF mSide[2] # 0 THEN Abs(v[2]) * mSide[2] ELSE v[2]
    IN  [comps EXCEPT ![ph].velocity = <<vx, vy>>]

\* The mutant of CPhysicsUpdateTrace that tests the sides before it moves.
CPhysicsUpdateTestFirst(comps, i, mFT) ==
    LET p  == comps[i].cPosition
        v  == comps[i].velocity
        horizontal(c) == IF physLeft(c, i) < 0 THEN << <<1, 0>> >>
                         ELSE IF physRight(c, i) > windowWidth THEN << <<-1, 0>> >>
                         ELSE <<>>
        vertical(c) == IF physTop(c, i) < 0 THEN << <<0, 1>> >>
                       ELSE IF physBottom(c, i) > windowHeight THEN << <<0, -1>> >>
                       ELSE <<>>
        called(c, sides) == IF sides = <<>> THEN c ELSE onOutOfBounds(c, i, sides[1])
        moved(c) == [c EXCEPT ![p].position = <<@[1] + v[1] * mFT, @[2] + v[2] * mFT>>]
        c2 == called(comps, horizontal(comps))
        c3 == called(c2, vertical(c2))
    IN  IF comps[i].onOutOfBounds = NULL THEN [comps |-> moved(comps), calls |-> <<>>]
        ELSE [comps |-> moved(c3), calls |-> horizontal(comps) \o vertical(c2)]

\* CPhysics::update: the components it leaves, and the sides it passed to
\* onOutOfBounds, in the order of the calls.
CPhysicsUpdateTrace(comps, i, mFT) ==
    LET p  == comps[i].cPosition
        v  == comps[i].velocity
        horizontal(c) == IF physLeft(c, i) < 0 THEN << <<1, 0>> >>
                         ELSE IF physRight(c, i) > windowWidth THEN << <<-1, 0>> >>
                         ELSE <<>>
        vertical(c) == IF physTop(c, i) < 0 THEN << <<0, 1>> >>
                       ELSE IF physBottom(c, i) > windowHeight THEN << <<0, -1>> >>
                       ELSE <<>>
        called(c, sides) == IF sides = <<>> THEN c ELSE onOutOfBounds(c, i, sides[1])
        c1 == [comps EXCEPT ![p].position = <<@[1] + v[1] * mFT, @[2] + v[2] * mFT>>]
        c2 == called(c1, horizontal(c1))
        c3 == called(c2, vertical(c2))
    IN  IF comps[i].onOutOfBounds = NULL THEN [comps |-> c1, calls |-> <<>>]
        ELSE [comps |-> c3, calls |-> horizontal(c1) \o vertical(c2)]

CPhysicsUpdate(comps, i, mFT) == CPhysicsUpdateTrace(comps, i, mFT).comps

\* CCircle::update and CRectangle::update
CShapeUpdate(comps, i) ==
    [comps EXCEPT ![i].shapePos = comps[comps[i].cPosition].position]

\* The mutant of CPaddleControlUpdate that does not test left() > 0.
CPaddleControlUpdateNoWall(comps, i, keys) ==
    LET ph == comps[i].cPhysics
        vx == IF "Left" \in keys THEN -paddleVelocity
              ELSE IF "Right" \in keys /\ physRight(comps, ph) < windowWidth
              THEN paddleVelocity
              ELSE 0
    IN  [comps EXCEPT ![ph].velocity = <<vx, @[2]>>]

CPaddleControlUpdate(comps, i, keys) ==
    LET ph == comps[i].cPhysics
        vx == IF "Left" \in keys /\ physLeft(comps, ph) > 0 THEN -paddleVelocity
              ELSE IF "Right" \in keys /\ physRight(comps, ph) < windowWidth
              THEN paddleVelocity
              ELSE 0
    IN  [comps EXCEPT ![ph].velocity = <<vx, @[2]>>]

\* component->update(mFT), by dynamic type
componentUpdate(comps, i, mFT, keys) ==
    CASE comps[i].type = "CPhysics" -> CPhysicsUpdate(comps, i, mFT)
      [] comps[i].type \in {"CCircle", "CRectangle"} -> CShapeUpdate(comps, i)
      [] comps[i].type = "CPaddleControl" -> CPaddleControlUpdate(comps, i, keys)
      [] OTHER -> comps

\* The mutant of updateFrom that calls the components from the one attached
\* last back to the one before index i.
RECURSIVE updateFromLast(_, _, _, _)
updateFromLast(comps, i, mFT, keys) ==
    IF i > Len(comps) THEN comps
    ELSE componentUpdate(updateFromLast(comps, i + 1, mFT, keys), i, mFT, keys)

RECURSIVE updateFrom(_, _, _, _)
updateFrom(comps, i, mFT, keys) ==
    IF i > Len(comps) THEN comps
    ELSE updateFrom(componentUpdate(comps, i, mFT, keys), i + 1, mFT, keys)

\* Entity::update: every component, in attach order.
entityUpdate(ent, mFT, keys) ==
    [ent EXCEPT !.components = updateFrom(@, 1, mFT, keys)]

\* Entity::draw: the shapes handed to Game::render, in attach order.
entityDraw(ent) ==
    LET shapes == SelectSeq(ent.components,
                            LAMBDA c : c.type \in {"CCircle", "CRectangle"})
    IN  [i \in 1..Len(shapes) |-> shapes[i].shapePos]

\* ----------------------------------------------------------------- Manager
\* entities.erase(remove_if(..., !isAlive)): the sequence kept, and the heap once
\* the erased unique_ptrs have deleted their entities.
purgeDead(ents, h) == SelectSeq(ents, LAMBDA e : isAlive(h[e]))

freeDead(ents, h) ==
    LET erased == {ents[i] : i \in {j \in 1..Len(ents) : ~isAlive(h[ents[j]])}}
    IN  IF erased = {} THEN h
        ELSE [e \in DOMAIN h |-> IF e \in erased THEN Freed ELSE h[e]]

\* Manager::update
managerUpdate(ents, h, mFT, keys) ==
    LET kept == purgeDead(ents, h)
        h1   == freeDead(ents, h)
        all  == Range(kept)
    IN  [entities |-> kept,
         heap |-> [e \in DOMAIN h1 |-> IF e \in all
                                       THEN entityUpdate(h1[e], mFT, keys) ELSE h1[e]],
         visited |-> kept]

\* The mutant of managerDraw that skips dead entities.
managerDrawAliveOnly(ents, h) == purgeDead(ents, h)

\* Manager::draw: the entities whose draw() is called, in order.
managerDraw(ents, h) == ents

\* The mutant of addToGroup that leaves the index for refresh to fill.
addToGroupDeferred(ge, e, mGroup) == ge

\* Manager::addToGroup
addToGroup(ge, e, mGroup) == [ge EXCEPT ![mGroup] = Append(@, e)]

getEntitiesByGroup(ge, mGroup) == ge[mGroup]

\* The predicate of refresh's remove_if for group i. Reading through a pointer
\* to a freed Entity is undefined: stale is what that read happens to give.
refreshRemoves(h, e, i, stale) ==
    IF IsFreed(h[e]) THEN ~stale
    ELSE ~isAlive(h[e]) \/ ~hasGroup(h[e], i)

\* The mutant of refreshGroups that leaves the indices as they are.
refreshGroupsKeepAll(ge, h, stale) == ge

\* The mutant of refreshGroups that drops dead entries only.
refreshGroupsDeadOnly(ge, h, stale) ==
    [i \in DOMAIN ge |->
        SelectSeq(ge[i], LAMBDA e : ~IsFreed(h[e]) /\ isAlive(h[e]))]

\* Manager::refresh, first loop
refreshGroups(ge, h, stale) ==
    [i \in DOMAIN ge |-> SelectSeq(ge[i], LAMBDA e : ~refreshRemoves(h, e, i, stale))]

\* Manager::refresh: the group indices are filtered, then the dead are erased.
managerRefresh(ents, ge, h, stale) ==
    [groupedEntities |-> refreshGroups(ge, h, stale),
     entities |-> purgeDead(ents, h),
     heap |-> freeDead(ents, h)]

\* Entries of the group indices that point to freed entities.
Dangling(ge, h) == {e \in DOMAIN h : IsFreed(h[e]) /\ \E i \in DOMAIN ge : e \in Range(ge[i])}

\* ------------------------------------------------- operations, as actions
ftStep == 1

Groups == 0..(maxGroups - 1)

\* The entities a client still holds a valid reference to.
Stored == Range(entities)

\* No Game object: the Manager is used on its own.
NoGame == [pc |-> "none"]

ManagerInit ==
    /\ lastID = 0
    /\ typeID = <<>>
    /\ entities = <<>>
    /\ groupedEntities = [g \in Groups |-> <<>>]
    /\ heap = <<>>
    /\ status = "ok"
    /\ lastOp = Call("Manager", <<>>, NULL)
    /\ game = NoGame

\* Manager::addEntity
AddEntity ==
    /\ status = "ok"
    /\ UNCHANGED game
    /\ Len(heap) < MaxEntities
    /\ heap' = Append(heap, NewEntity)
    /\ entities' = Append(entities, Len(heap) + 1)
    /\ lastOp' = Call("addEntity", <<>>, Len(heap) + 1)
    /\ UNCHANGED <<lastID, typeID, groupedEntities, status>>

\* The component a client constructs for addComponent<T>, with zero arguments.
DefaultComponent(T) ==
    CASE T = "CPosition" -> CPosition(Vec0)
      [] T = "CPhysics" -> CPhysics(Vec0)
      [] T = "CCircle" -> CCircle(0)
      [] T = "CRectangle" -> CRectangle(Vec0)
      [] T = "CPaddleControl" -> CPaddleControl

AddComponent(e, T) ==
    /\ status = "ok"
    /\ UNCHANGED game
    /\ e \in Stored
    /\ LET r == addComponent(heap[e], Registry, T, DefaultComponent(T))
       IN  /\ status' = r.status
           /\ heap' = [heap EXCEPT ![e] = r.ent]
           /\ typeID' = r.R.typeID
           /\ lastID' = r.R.lastID
           /\ lastOp' = Call("addComponent", <<e, T>>, r.ret)
    /\ UNCHANGED <<entities, groupedEntities>>

GetComponent(e, T) ==
    /\ status = "ok"
    /\ UNCHANGED game
    /\ e \in Stored
    /\ LET r == getComponent(heap[e], Registry, T)
       IN  /\ status' = r.status
           /\ typeID' = r.R.typeID
           /\ lastID' = r.R.lastID
           /\ lastOp' = Call("getComponent", <<e, T>>, r.ret)
    /\ UNCHANGED <<entities, groupedEntities, heap>>

HasComponent(e, T) ==
    /\ status = "ok"
    /\ UNCHANGED game
    /\ e \in Stored
    /\ LET r == hasComponent(heap[e], Registry, T)
       IN  /\ status' = (IF r.inRange THEN "ok" ELSE "corrupt")
           /\ typeID' = r.R.typeID
           /\ lastID' = r.R.lastID
           /\ lastOp' = Call("hasComponent", <<e, T>>, r.ret)
    /\ UNCHANGED <<entities, groupedEntities, heap>>

\* What an index past the end of a std::bitset or std::array leads to: no
\* assertion guards it, the access is undefined and the process either dies or
\* carries on with memory it does not own.
OutOfRange(op, arg) ==
    /\ status' \in {"crashed", "corrupt"}
    /\ lastOp' = Call(op, arg, NULL)
    /\ UNCHANGED <<lastID, typeID, entities, groupedEntities, heap>>

\* Entity::addGroup
AddGroup(e, g) ==
    /\ status = "ok"
    /\ UNCHANGED game
    /\ e \in Stored
    /\ IF g >= maxGroups THEN OutOfRange("addGroup", <<e, g>>)
       ELSE /\ Len(groupedEntities[g]) < MaxGroupLen
            /\ heap' = [heap EXCEPT ![e] = addGroup(@, g)]
            /\ groupedEntities' = addToGroup(groupedEntities, e, g)
            /\ lastOp' = Call("addGroup", <<e, g>>, NULL)
            /\ UNCHANGED <<lastID, typeID, entities, status>>

\* Entity::delGroup
DelGroup(e, g) ==
    /\ status = "ok"
    /\ UNCHANGED game
    /\ e \in Stored
    /\ IF g >= maxGroups THEN OutOfRange("delGroup", <<e, g>>)
       ELSE /\ heap' = [heap EXCEPT ![e] = delGroup(@, g)]
            /\ lastOp' = Call("delGroup", <<e, g>>, NULL)
            /\ UNCHANGED <<lastID, typeID, entities, groupedEntities, status>>

\* Entity::hasGroup
HasGroup(e, g) ==
    /\ status = "ok"
    /\ UNCHANGED game
    /\ e \in Stored
    /\ IF g >= maxGroups THEN OutOfRange("hasGroup", <<e, g>>)
       ELSE /\ lastOp' = Call("hasGroup", <<e, g>>, hasGroup(heap[e], g))
            /\ UNCHANGED <<lastID, typeID, entities, groupedEntities, heap, status>>

\* Manager::getEntitiesByGroup
GetEntitiesByGroup(g) ==
    /\ status = "ok"
    /\ UNCHANGED game
    /\ IF g >= maxGroups THEN OutOfRange("getEntitiesByGroup", <<g>>)
       ELSE /\ lastOp' = Call("getEntitiesByGroup", <<g>>,
                              getEntitiesByGroup(groupedEntities, g))
            /\ UNCHANGED <<lastID, typeID, entities, groupedEntities, heap, status>>

\* Entity::destroy
Destroy(e) ==
    /\ status = "ok"
    /\ UNCHANGED game
    /\ e \in Stored
    /\ heap' = [heap EXCEPT ![e] = destroy(@)]
    /\ lastOp' = Call("destroy", <<e>>, NULL)
    /\ UNCHANGED <<lastID, typeID, entities, groupedEntities, status>>

\* Manager::update
ManagerUpdate ==
    /\ status = "ok"
    /\ UNCHANGED game
    /\ LET r == managerUpdate(entities, heap, ftStep, {})
       IN  /\ entities' = r.entities
           /\ heap' = r.heap
           /\ lastOp' = Call("update", <<ftStep>>, r.visited)
    /\ UNCHANGED <<lastID, typeID, groupedEntities, status>>

\* Manager::draw
ManagerDraw ==
    /\ status = "ok"
    /\ UNCHANGED game
    /\ lastOp' = Call("draw", <<>>, managerDraw(entities, heap))
    /\ UNCHANGED <<lastID, typeID, entities, groupedEntities, heap, status>>

\* Manager::refresh. With an index entry that points to a freed entity the
\* first loop reads freed memory: the read crashes, or gives some value.
ManagerRefresh ==
    /\ status = "ok"
    /\ UNCHANGED game
    /\ \E stale \in BOOLEAN, crash \in BOOLEAN :
          /\ Dangling(groupedEntities, heap) = {} => (stale /\ ~crash)
          /\ IF crash
             THEN /\ status' = "crashed"
                  /\ lastOp' = Call("refresh", <<>>, NULL)
                  /\ UNCHANGED <<entities, groupedEntities, heap>>
             ELSE LET r == managerRefresh(entities, groupedEntities, heap, stale)
                  IN  /\ groupedEntities' = r.groupedEntities
                      /\ entities' = r.entities
                      /\ heap' = r.heap
                      /\ lastOp' = Call("refresh", <<>>, NULL)
                      /\ status' = "ok"
    /\ UNCHANGED <<lastID, typeID>>

\* --------------------------------------------------------- specifications
\* A client of Manager and Entity: lifecycle, groups, broadcasts.
LifecycleTypes == {"CPosition"}
LifecycleGroups == {0, maxGroups}

Next ==
    \/ AddEntity
    \/ \E e \in Stored, T \in LifecycleTypes : AddComponent(e, T)
    \/ \E e \in Stored, g \in LifecycleGroups : AddGroup(e, g)
    \/ \E e \in Stored, g \in LifecycleGroups : DelGroup(e, g)
    \/ \E e \in Stored, g \in LifecycleGroups : HasGroup(e, g)
    \/ \E g \in LifecycleGroups : GetEntitiesByGroup(g)
    \/ \E e \in Stored : Destroy(e)
    \/ ManagerUpdate
    \/ ManagerDraw
    \/ ManagerRefresh

Spec == ManagerInit /\ [][Next]_vars

\* A client that calls addEntity, addGroup, delGroup, destroy and refresh only.
IndexGroups == {0, 1}

NextGroups ==
    \/ AddEntity
    \/ \E e \in Stored, g \in IndexGroups : AddGroup(e, g)
    \/ \E e \in Stored, g \in IndexGroups : DelGroup(e, g)
    \/ \E e \in Stored : Destroy(e)
    \/ ManagerRefresh

SpecGroups == ManagerInit /\ [][NextGroups]_vars

\* A client that attaches and queries components.
AttachTypes == {"CPosition", "CPhysics", "CPaddleControl"}

NextComponents ==
    \/ AddEntity
    \/ \E e \in Stored, T \in AttachTypes : AddComponent(e, T)
    \/ \E e \in Stored, T \in AttachTypes : GetComponent(e, T)
    \/ \E e \in Stored, T \in AttachTypes : HasComponent(e, T)

SpecComponents == ManagerInit /\ [][NextComponents]_vars

\* Calls of getComponentTypeID<T>() over the component types, in any order.
GetComponentTypeID(T) ==
    /\ status = "ok"
    /\ UNCHANGED game
    /\ LET r == getComponentTypeID(Registry, T)
       IN  /\ typeID' = r.R.typeID
           /\ lastID' = r.R.lastID
           /\ lastOp' = Call("getComponentTypeID", <<T>>, r.ret)
    /\ UNCHANGED <<entities, groupedEntities, heap, status>>

NextRegistry == \E T \in ComponentTypes : GetComponentTypeID(T)

SpecRegistry == ManagerInit /\ [][NextRegistry]_vars

\* -------------------------------------------------------------------- Game
\* Fixed steps the run is followed for.
MaxSteps == 332
\* Fixed steps during which Left or Right is held.
MaxKeySteps == 1

\* Lengths in tenths of a pixel, times in tenths of a millisecond.
ballRadius == 100
paddleWidth == 600
paddleHeight == 200
blockWidth == 600
blockHeight == 200
countBlockX == 11
countBlockY == 4
ftSlice == 10
GPaddle == 0
GBrick == 1
GBall == 2

\* The Manager, the registry and the heap while the Game constructor runs.
EmptyWorld ==
    [entities |-> <<>>, heap |-> <<>>, groupedEntities |-> [g \in Groups |-> <<>>],
     R |-> [typeID |-> <<>>, lastID |-> 0], status |-> "ok"]

wAddEntity(W) ==
    [W EXCEPT !.heap = Append(@, NewEntity), !.entities = Append(@, Len(W.heap) + 1)]

wAddComponent(W, e, T, c) ==
    LET returned(r) == [W EXCEPT !.heap[e] = r.ent, !.R = r.R, !.status = r.status]
    IN  IF W.status # "ok" THEN W
        ELSE returned(addComponent(W.heap[e], W.R, T, c))

wAddGroup(W, e, g) ==
    IF W.status # "ok" THEN W
    ELSE [W EXCEPT !.heap[e] = addGroup(@, g),
                   !.groupedEntities = addToGroup(@, e, g)]

\* Game::createBall
createBall(W) ==
    LET W1 == wAddEntity(W)
        e  == Len(W1.heap)
        W2 == wAddComponent(W1, e, "CPosition",
                            CPosition(<<windowWidth \div 2, windowHeight \div 2>>))
        W3 == wAddComponent(W2, e, "CPhysics", CPhysics(<<ballRadius, ballRadius>>))
        \* auto& cPhysics(entity.getComponent<CPhysics>()) and the two assignments
        launch(W4) ==
            LET g == getComponent(W4.heap[e], W4.R, "CPhysics")
            IN  IF W4.status # "ok" THEN W4
                ELSE IF g.status # "ok" THEN [W4 EXCEPT !.status = g.status]
                ELSE [W4 EXCEPT
                        !.heap[e].components[g.ret].velocity =
                            <<-ballVelocity, -ballVelocity>>,
                        !.heap[e].components[g.ret].onOutOfBounds = "bounce"]
    IN  wAddGroup(launch(wAddComponent(W3, e, "CCircle", CCircle(ballRadius))),
                  e, GBall)

\* Game::createBrick
createBrick(W, mPosition) ==
    LET halfSize == <<blockWidth \div 2, blockHeight \div 2>>
        W1 == wAddEntity(W)
        e  == Len(W1.heap)
        W2 == wAddComponent(W1, e, "CPosition", CPosition(mPosition))
        W3 == wAddComponent(W2, e, "CPhysics", CPhysics(halfSize))
        W4 == wAddComponent(W3, e, "CRectangle", CRectangle(halfSize))
    IN  wAddGroup(W4, e, GBrick)

\* Game::createPaddle
createPaddle(W) ==
    LET halfSize == <<paddleWidth \div 2, paddleHeight \div 2>>
        W1 == wAddEntity(W)
        e  == Len(W1.heap)
        W2 == wAddComponent(W1, e, "CPosition",
                            CPosition(<<windowWidth \div 2, windowHeight - 600>>))
        W3 == wAddComponent(W2, e, "CPhysics", CPhysics(halfSize))
        W4 == wAddComponent(W3, e, "CRectangle", CRectangle(halfSize))
        W5 == wAddComponent(W4, e, "CPaddleControl", CPaddleControl)
    IN  wAddGroup(W5, e, GPaddle)

\* The brick of the n-th pass of the constructor's nested loops (iY is the inner).
BrickPosition(n) ==
    LET iX == n \div countBlockY
        iY == n % countBlockY
    IN  <<(iX + 1) * (blockWidth + 30) + 220, (iY + 2) * (blockHeight + 30)>>

\* Game::Game. Each pass of the brick loops appends the entity createBrick builds
\* to the heap, to entities and to the GBrick index; the passes differ in
\* BrickPosition only, so the loops are written as the sequences they produce.
GameWorld ==
    LET count == countBlockX * countBlockY
        bricks(W0, n0, first) ==
            [entities |-> [i \in 1..(n0 + count) |-> i],
             heap |-> [i \in 1..(n0 + count) |->
                         IF i <= n0 THEN W0.heap[i]
                         ELSE createBrick(W0, BrickPosition(i - n0 - 1)).heap[n0 + 1]],
             groupedEntities |->
                 [W0.groupedEntities EXCEPT ![GBrick] = [i \in 1..count |-> n0 + i]],
             R |-> first.R,
             status |-> first.status]
        after(W0) == bricks(W0, Len(W0.heap), createBrick(W0, BrickPosition(0)))
    IN  after(createBall(createPaddle(EmptyWorld)))

\* The mutant of isIntersecting whose first comparison is strict.
isIntersectingApart(cA, a, cB, b) ==
    /\ physRight(cA, a) > physLeft(cB, b)
    /\ physLeft(cA, a) <= physRight(cB, b)
    /\ physBottom(cA, a) >= physTop(cB, b)
    /\ physTop(cA, a) <= physBottom(cB, b)

\* Using to check the colliding of two shapes (two CPhysics).
isIntersecting(cA, a, cB, b) ==
    /\ physRight(cA, a) >= physLeft(cB, b)
    /\ physLeft(cA, a) <= physRight(cB, b)
    /\ physBottom(cA, a) >= physTop(cB, b)
    /\ physTop(cA, a) <= physBottom(cB, b)

\* The mutant of testCollisionPB that sends a ball level with the paddle's centre left.
testCollisionPBCentreLeft(S, mPaddle, mBall) ==
    LET cP == S.heap[mPaddle].components
        cB == S.heap[mBall].components
        test(p, b) ==
            IF ~isIntersecting(cP, p, cB, b) THEN S
            ELSE [S EXCEPT !.heap[mBall].components[b].velocity =
                     <<IF physX(cB, b) <= physX(cP, p) THEN -ballVelocity ELSE ballVelocity,
                       -ballVelocity>>]
    IN  IF IsFreed(S.heap[mPaddle]) \/ IsFreed(S.heap[mBall])
        THEN [S EXCEPT !.status = "corrupt"]
        ELSE test(getComponent(S.heap[mPaddle], S.R, "CPhysics").ret,
                  getComponent(S.heap[mBall], S.R, "CPhysics").ret)

\* S is [heap, R, status]. A pointer to a freed entity makes the call undefined.
\* getComponent succeeds for a type that has its ID, so the registry stays as is.
testCollisionPB(S, mPaddle, mBall) ==
    LET cP == S.heap[mPaddle].components
        cB == S.heap[mBall].components
        test(p, b) ==
            IF ~isIntersecting(cP, p, cB, b) THEN S
            ELSE [S EXCEPT !.heap[mBall].components[b].velocity =
                     <<IF physX(cB, b) < physX(cP, p) THEN -ballVelocity ELSE ballVelocity,
                       -ballVelocity>>]
        got(gp, gb) ==
            IF gp.status # "ok" THEN [S EXCEPT !.R = gp.R, !.status = gp.status]
            ELSE IF gb.status # "ok" THEN [S EXCEPT !.R = gb.R, !.status = gb.status]
            ELSE test(gp.ret, gb.ret)
        cpPaddle(gp) == got(gp, getComponent(S.heap[mBall], gp.R, "CPhysics"))
    IN  IF IsFreed(S.heap[mPaddle]) \/ IsFreed(S.heap[mBall])
        THEN [S EXCEPT !.status = "corrupt"]
        ELSE cpPaddle(getComponent(S.heap[mPaddle], S.R, "CPhysics"))

\* The mutant of brickBounce whose comparison of the two axes is not strict.
brickBounceTieHorizontal(v, overlapLeft, overlapRight, overlapTop, overlapBottom) ==
    LET ballFromLeft == Abs(overlapLeft) < Abs(overlapRight)
        ballFromTop  == Abs(overlapTop) < Abs(overlapBottom)
        minOverlapX  == IF ballFromLeft THEN overlapLeft ELSE overlapRight
        minOverlapY  == IF ballFromTop THEN overlapTop ELSE overlapBottom
    IN  IF Abs(minOverlapX) <= Abs(minOverlapY)
        THEN <<IF ballFromLeft THEN -ballVelocity ELSE ballVelocity, v[2]>>
        ELSE <<v[1], IF ballFromTop THEN -10 ELSE ballVelocity>>

\* The velocity testCollisionBB leaves the ball with, from the four overlaps.
\* "ballFromTop ? -ballFromTop : ballVelocity": -ballFromTop is the integer -1,
\* so the ball leaves with vertical velocity -1.0, in tenths -10.
brickBounce(v, overlapLeft, overlapRight, overlapTop, overlapBottom) ==
    LET ballFromLeft == Abs(overlapLeft) < Abs(overlapRight)
        ballFromTop  == Abs(overlapTop) < Abs(overlapBottom)
        minOverlapX  == IF ballFromLeft THEN overlapLeft ELSE overlapRight
        minOverlapY  == IF ballFromTop THEN overlapTop ELSE overlapBottom
    IN  IF Abs(minOverlapX) < Abs(minOverlapY)
        THEN <<IF ballFromLeft THEN -ballVelocity ELSE ballVelocity, v[2]>>
        ELSE <<v[1], IF ballFromTop THEN -10 ELSE ballVelocity>>

\* The mutant of testCollisionBB that bounces the ball and leaves the brick alive.
testCollisionBBBounceOnly(S, mBrick, mBall) ==
    LET cK == S.heap[mBrick].components
        cB == S.heap[mBall].components
        test(k, b) ==
            IF ~isIntersecting(cK, k, cB, b) THEN S
            ELSE [S EXCEPT !.heap[mBall].components[b].velocity =
                               brickBounce(@, physRight(cB, b) - physLeft(cK, k),
                                              physRight(cK, k) - physLeft(cB, b),
                                              physBottom(cB, b) - physTop(cK, k),
                                              physBottom(cK, k) - physTop(cB, b))]
    IN  IF IsFreed(S.heap[mBrick]) \/ IsFreed(S.heap[mBall])
        THEN [S EXCEPT !.status = "corrupt"]
        ELSE test(getComponent(S.heap[mBrick], S.R, "CPhysics").ret,
                  getComponent(S.heap[mBall], S.R, "CPhysics").ret)

testCollisionBB(S, mBrick, mBall) ==
    LET cK == S.heap[mBrick].components
        cB == S.heap[mBall].components
        test(k, b) ==
            IF ~isIntersecting(cK, k, cB, b) THEN S
            ELSE [S EXCEPT !.heap[mBrick] = destroy(@),
                           !.heap[mBall].components[b].velocity =
                               brickBounce(@, physRight(cB, b) - physLeft(cK, k),
                                              physRight(cK, k) - physLeft(cB, b),
                                              physBottom(cB, b) - physTop(cK, k),
                                              physBottom(cK, k) - physTop(cB, b))]
        got(gk, gb) ==
            IF gk.status # "ok" THEN [S EXCEPT !.R = gk.R, !.status = gk.status]
            ELSE IF gb.status # "ok" THEN [S EXCEPT !.R = gb.R, !.status = gb.status]
            ELSE test(gk.ret, gb.ret)
        cpBrick(gk) == got(gk, getComponent(S.heap[mBall], gk.R, "CPhysics"))
    IN  IF IsFreed(S.heap[mBrick]) \/ IsFreed(S.heap[mBall])
        THEN [S EXCEPT !.status = "corrupt"]
        ELSE cpBrick(getComponent(S.heap[mBrick], S.R, "CPhysics"))

\* The loops are written so that the state each call leaves is computed once:
\* T is the state after the call, R the state after the rest of the loop.
RECURSIVE collidePaddles(_, _, _, _)
collidePaddles(S, paddles, i, b) ==
    IF i > Len(paddles) \/ S.status # "ok" THEN S
    ELSE CHOOSE R \in {collidePaddles(T, paddles, i + 1, b) :
                          T \in {testCollisionPB(S, paddles[i], b)}} : TRUE

RECURSIVE collideBricks(_, _, _, _)
collideBricks(S, bricks, i, b) ==
    IF i > Len(bricks) \/ S.status # "ok" THEN S
    ELSE CHOOSE R \in {collideBricks(T, bricks, i + 1, b) :
                          T \in {testCollisionBB(S, bricks[i], b)}} : TRUE

\* The loops of updatePhase over balls, paddles and bricks.
RECURSIVE collideBalls(_, _, _, _, _)
collideBalls(S, paddles, bricks, balls, j) ==
    IF j > Len(balls) \/ S.status # "ok" THEN S
    ELSE CHOOSE R \in {collideBalls(T, paddles, bricks, balls, j + 1) :
                          T \in {collideBricks(P, bricks, 1, balls[j]) :
                                     P \in {collidePaddles(S, paddles, 1, balls[j])}}} : TRUE

\* The frame times the clock of run() gives: none, half a slice, two slices.
FrameTimes == {0, ftSlice \div 2, 2 * ftSlice}
KeyInputs == SUBSET {"Left", "Right"}

\* Game{}: the state run() starts from. steps counts the fixed steps towards
\* MaxSteps; a run that starts with steps0 counted has MaxSteps - steps0 to take.
GameStart(steps0) ==
    /\ \E W \in {GameWorld} :
          /\ lastID = W.R.lastID
          /\ typeID = W.R.typeID
          /\ entities = W.entities
          /\ groupedEntities = W.groupedEntities
          /\ heap = W.heap
          /\ status = W.status
    /\ lastOp = Call("Game", <<>>, NULL)
    /\ game = [pc |-> "run", running |-> FALSE, lastFrametime |-> 0,
               currentSlice |-> 0, window |-> <<>>, steps |-> steps0, keySteps |-> 0,
               keys |-> {},
               killed |-> {}, killedStep |-> {}, accumulated |-> 0, frameSteps |-> 0]

GameInit == GameStart(0)

\* run(), up to the loop
Run ==
    /\ status = "ok"
    /\ game.pc = "run"
    /\ game' = [game EXCEPT !.pc = "input", !.running = TRUE]
    /\ lastOp' = Call("run", <<>>, NULL)
    /\ UNCHANGED <<lastID, typeID, entities, groupedEntities, heap, status>>

\* Game::inputPhase: closed is a Closed event in the queue, escape the Escape key.
InputPhase ==
    /\ status = "ok"
    /\ game.pc = "input"
    /\ \E closed \in BOOLEAN, escape \in BOOLEAN :
          /\ game' = [game EXCEPT !.pc = "update",
                                  !.running = IF closed \/ escape THEN FALSE ELSE @,
                                  !.killed = {}, !.killedStep = {}]
          /\ lastOp' = Call("inputPhase", <<closed, escape>>, NULL)
    /\ UNCHANGED <<lastID, typeID, entities, groupedEntities, heap, status>>

\* Game::updatePhase, "currentSlice += lastFrametime"
UpdatePhaseBegin ==
    /\ status = "ok"
    /\ game.pc = "update"
    /\ game' = [game EXCEPT !.pc = "slice", !.currentSlice = @ + game.lastFrametime,
                            !.accumulated = game.currentSlice + game.lastFrametime,
                            !.frameSteps = 0]
    /\ lastOp' = Call("updatePhase", <<>>, NULL)
    /\ UNCHANGED <<lastID, typeID, entities, groupedEntities, heap, status>>

\* The mutant of sliceDue that wants more than a whole slice.
sliceDueStrict(currentSlice) == currentSlice > ftSlice

\* The condition of the loop of updatePhase
sliceDue(currentSlice) == currentSlice >= ftSlice

\* One pass of the loop of updatePhase, first statement: manager.refresh()
StepRefresh ==
    /\ status = "ok"
    /\ game.pc = "slice"
    /\ sliceDue(game.currentSlice)
    /\ game.steps < MaxSteps
    /\ \E stale \in BOOLEAN :
          /\ Dangling(groupedEntities, heap) = {} => stale
          /\ \E r \in {managerRefresh(entities, groupedEntities, heap, stale)} :
                 /\ entities' = r.entities
                 /\ groupedEntities' = r.groupedEntities
                 /\ heap' = r.heap
    /\ game' = [game EXCEPT !.pc = "managerUpdate"]
    /\ lastOp' = Call("refresh", <<>>, NULL)
    /\ UNCHANGED <<lastID, typeID, status>>

\* second statement: manager.update(ftStep); keys is what isKeyPressed answers
StepUpdate ==
    /\ status = "ok"
    /\ game.pc = "managerUpdate"
    /\ \E keys \in KeyInputs :
          /\ keys # {} => game.keySteps < MaxKeySteps
          /\ \E r \in {managerUpdate(entities, heap, ftStep, keys)} :
                 /\ entities' = r.entities
                 /\ heap' = r.heap
                 /\ lastOp' = Call("update", <<ftStep>>, r.visited)
          /\ game' = [game EXCEPT !.pc = "collide",
                                  !.keys = keys,
                                  !.keySteps = IF keys # {} THEN @ + 1 ELSE @]
    /\ UNCHANGED <<lastID, typeID, groupedEntities, status>>

\* the collision loops, and the loop's "currentSlice -= ftSlice"
StepCollide ==
    /\ status = "ok"
    /\ game.pc = "collide"
    /\ \E S \in {collideBalls([heap |-> heap, R |-> Registry, status |-> "ok"],
                               getEntitiesByGroup(groupedEntities, GPaddle),
                               getEntitiesByGroup(groupedEntities, GBrick),
                               getEntitiesByGroup(groupedEntities, GBall), 1)} :
       LET dead == {e \in DOMAIN heap :
                       /\ ~IsFreed(heap[e]) /\ isAlive(heap[e])
                       /\ ~isAlive(S.heap[e])}
       IN  /\ heap' = S.heap
           /\ typeID' = S.R.typeID
           /\ lastID' = S.R.lastID
           /\ status' = S.status
           /\ game' = [game EXCEPT !.pc = "slice", !.currentSlice = @ - ftSlice,
                                   !.steps = @ + 1, !.frameSteps = @ + 1,
                                   !.killed = @ \cup dead, !.killedStep = dead]
    /\ lastOp' = Call("collide", <<>>, NULL)
    /\ UNCHANGED <<entities, groupedEntities>>

\* the loop of updatePhase ends
UpdatePhaseEnd ==
    /\ status = "ok"
    /\ game.pc = "slice"
    /\ ~sliceDue(game.currentSlice)
    /\ game' = [game EXCEPT !.pc = "draw"]
    /\ lastOp' = Call("updatePhaseEnd", <<>>, NULL)
    /\ UNCHANGED <<lastID, typeID, entities, groupedEntities, heap, status>>

\* The mutant of DrawPhase after which the loop of run() goes on whatever running is.
DrawPhaseLoopOn ==
    /\ status = "ok"
    /\ game.pc = "draw"
    /\ \E ft \in FrameTimes :
          /\ game.steps + (game.currentSlice + ft) \div ftSlice <= MaxSteps
          /\ game' = [game EXCEPT !.pc = "input",
                                  !.window = managerDraw(entities, heap),
                                  !.lastFrametime = ft,
                                  !.accumulated = 0, !.frameSteps = 0]
    /\ lastOp' = Call("drawPhase", <<>>, NULL)
    /\ UNCHANGED <<lastID, typeID, entities, groupedEntities, heap, status>>

\* Game::drawPhase, then the rest of the loop body of run(): ft is the frame time
\* measured, and the loop goes on while running. Once MaxSteps fixed steps have
\* run only frame times that start no further step are measured.
DrawPhase ==
    /\ status = "ok"
    /\ game.pc = "draw"
    /\ \E ft \in FrameTimes :
          /\ game.steps + (game.currentSlice + ft) \div ftSlice <= MaxSteps
          /\ game' = [game EXCEPT !.pc = IF game.running THEN "input" ELSE "done",
                                  !.window = managerDraw(entities, heap),
                                  !.lastFrametime = ft,
                                  !.accumulated = 0, !.frameSteps = 0]
    /\ lastOp' = Call("drawPhase", <<>>, NULL)
    /\ UNCHANGED <<lastID, typeID, entities, groupedEntities, heap, status>>

NextGame ==
    \/ Run
    \/ InputPhase
    \/ UpdatePhaseBegin
    \/ StepRefresh
    \/ StepUpdate
    \/ StepCollide
    \/ UpdatePhaseEnd
    \/ DrawPhase

SpecGame == GameInit /\ [][NextGame]_vars

\* run() is one thread that nothing suspends: while a statement of the loop is
\* left to execute, one is executed. The runs checked for what they do in the
\* end take FairSteps fixed steps at most.
FairSteps == 3

SpecGameFair == GameStart(MaxSteps - FairSteps) /\ [][NextGame]_vars /\ WF_vars(NextGame)

\* ------------------------------------------------------- a moment of play
\* The loop of updatePhase, started from a moment of play: the paddle where it
\* was created, one brick of the wall left, and the ball about to reach the brick
\* or a side of the window. The ball moves by multiples of ballVelocity from the
\* centre of the window, so its coordinates are multiples of ballVelocity.
PlaySteps == 3
PlayReach == 2

PlayBrick == BrickPosition(0)

PlayOffsets == {ballVelocity * k : k \in (-PlayReach)..PlayReach}

PlayXs ==
    {ballRadius, ballRadius + ballVelocity, PlayBrick[1],
     windowWidth - ballRadius - ballVelocity, windowWidth - ballRadius}
    \cup {PlayBrick[1] - blockWidth \div 2 - ballRadius + d : d \in PlayOffsets}
    \cup {PlayBrick[1] + blockWidth \div 2 + ballRadius + d : d \in PlayOffsets}

PlayYs ==
    {ballRadius, ballRadius + ballVelocity, PlayBrick[2],
     windowHeight - ballRadius - ballVelocity, windowHeight - ballRadius}
    \cup {PlayBrick[2] - blockHeight \div 2 - ballRadius + d : d \in PlayOffsets}
    \cup {PlayBrick[2] + blockHeight \div 2 + ballRadius + d : d \in PlayOffsets}

\* -ballVelocity and ballVelocity on each axis, and the -1.0 of testCollisionBB
PlayVelocities == {-ballVelocity, ballVelocity} \X {-10, -ballVelocity, ballVelocity}

PlayWorld == createBrick(createBall(createPaddle(EmptyWorld)), PlayBrick)

\* The world with the ball (entity b) at position p with velocity v, as its
\* components' update() of the step before left it.
ballAt(W, b, p, v) ==
    [W EXCEPT !.heap[b].components =
        [i \in DOMAIN @ |->
            CASE @[i].type = "CPosition" -> [@[i] EXCEPT !.position = p]
              [] @[i].type = "CPhysics" -> [@[i] EXCEPT !.velocity = v]
              [] @[i].type = "CCircle" -> [@[i] EXCEPT !.shapePos = p]
              [] OTHER -> @[i]]]

\* The index of the CPhysics of a live entity in its components.
physOf(ent) == CHOOSE i \in DOMAIN ent.components : ent.components[i].type = "CPhysics"

\* isIntersecting on the CPhysics of two entities of a heap
touching(h, a, b) ==
    isIntersecting(h[a].components, physOf(h[a]), h[b].components, physOf(h[b]))

PlayInit ==
    /\ \E W0 \in {PlayWorld} :
       \E b \in Range(getEntitiesByGroup(W0.groupedEntities, GBall)) :
       \E p \in PlayXs \X PlayYs, v \in PlayVelocities :
       \E W \in {ballAt(W0, b, p, v)} :
          /\ \A g \in {GPaddle, GBrick} :
                 \A e \in Range(getEntitiesByGroup(W.groupedEntities, g)) :
                     ~touching(W.heap, e, b)
          /\ lastID = W.R.lastID
          /\ typeID = W.R.typeID
          /\ entities = W.entities
          /\ groupedEntities = W.groupedEntities
          /\ heap = W.heap
          /\ status = W.status
    /\ lastOp = Call("updatePhase", <<>>, NULL)
    /\ game = [pc |-> "slice", running |-> TRUE, lastFrametime |-> PlaySteps * ftSlice,
               currentSlice |-> PlaySteps * ftSlice, window |-> <<>>, steps |-> 0,
               keySteps |-> MaxKeySteps, keys |-> {}, killed |-> {}, killedStep |-> {},
               accumulated |-> PlaySteps * ftSlice, frameSteps |-> 0]

NextPlay ==
    \/ StepRefresh
    \/ StepUpdate
    \/ StepCollide

SpecPlay == PlayInit /\ [][NextPlay]_vars

\* ------------------------------------------- the collision functions alone
\* isIntersecting, testCollisionPB and testCollisionBB applied once to a paddle,
\* a ball and a brick. The ball is placed around the brick or around the paddle:
\* clear of it, touching it on an edge or a corner, and overlapping it up to
\* centre on centre; its velocity is any the game gives a ball.
CollisionDXs ==
    {-(blockWidth \div 2 + ballRadius) + d : d \in {-ballVelocity, 0, ballVelocity}}
    \cup {-300, -200, -100, 0, 100, 200, 300}
    \cup {blockWidth \div 2 + ballRadius + d : d \in {-ballVelocity, 0, ballVelocity}}

CollisionDYs ==
    {-(blockHeight \div 2 + ballRadius) + d : d \in {-ballVelocity, 0, ballVelocity}}
    \cup {-100, 0, 100}
    \cup {blockHeight \div 2 + ballRadius + d : d \in {-ballVelocity, 0, ballVelocity}}

\* The centre of entity e's box
centreOf(h, e) ==
    <<physX(h[e].components, physOf(h[e])), physY(h[e].components, physOf(h[e]))>>

CollisionInit ==
    /\ \E W0 \in {PlayWorld} :
       \E b \in Range(getEntitiesByGroup(W0.groupedEntities, GBall)) :
       \E g \in {GPaddle, GBrick} :
       \E e \in Range(getEntitiesByGroup(W0.groupedEntities, g)) :
       \E dx \in CollisionDXs, dy \in CollisionDYs, v \in PlayVelocities :
       \E W \in {ballAt(W0, b, <<centreOf(W0.heap, e)[1] + dx,
                                 centreOf(W0.heap, e)[2] + dy>>, v)} :
          /\ lastID = W.R.lastID
          /\ typeID = W.R.typeID
          /\ entities = W.entities
          /\ groupedEntities = W.groupedEntities
          /\ heap = W.heap
          /\ status = W.status
    /\ lastOp = Call("Game", <<>>, NULL)
    /\ game = NoGame

\* isIntersecting(a, b) on the CPhysics of two entities
IsIntersecting(a, b) ==
    /\ status = "ok"
    /\ lastOp.op = "Game"
    /\ lastOp' = Call("isIntersecting", <<a, b>>, touching(heap, a, b))
    /\ UNCHANGED <<lastID, typeID, entities, groupedEntities, heap, status, game>>

TestCollisionPB(p, b) ==
    /\ status = "ok"
    /\ lastOp.op = "Game"
    /\ \E S \in {testCollisionPB([heap |-> heap, R |-> Registry, status |-> "ok"], p, b)} :
          /\ heap' = S.heap
          /\ typeID' = S.R.typeID
          /\ lastID' = S.R.lastID
          /\ status' = S.status
    /\ lastOp' = Call("testCollisionPB", <<p, b>>, NULL)
    /\ UNCHANGED <<entities, groupedEntities, game>>

TestCollisionBB(k, b) ==
    /\ status = "ok"
    /\ lastOp.op = "Game"
    /\ \E S \in {testCollisionBB([heap |-> heap, R |-> Registry, status |-> "ok"], k, b)} :
          /\ heap' = S.heap
          /\ typeID' = S.R.typeID
          /\ lastID' = S.R.lastID
          /\ status' = S.status
    /\ lastOp' = Call("testCollisionBB", <<k, b>>, NULL)
    /\ UNCHANGED <<entities, groupedEntities, game>>

NextCollision ==
    \/ \E a \in Stored, b \in Stored : IsIntersecting(a, b)
    \/ \E p \in Range(getEntitiesByGroup(groupedEntities, GPaddle)),
          b \in Range(getEntitiesByGroup(groupedEntities, GBall)) : TestCollisionPB(p, b)
    \/ \E k \in Range(getEntitiesByGroup(groupedEntities, GBrick)),
          b \in Range(getEntitiesByGroup(groupedEntities, GBall)) : TestCollisionBB(k, b)

SpecCollision == CollisionInit /\ [][NextCollision]_vars

\* ------------------------------------------------------------------ CPhysics::update alone
\* One call of CPhysics::update on an entity of a world in the middle of play:
\* the ball anywhere up to the walls and the corners with each of its
\* velocities, the paddle where Game puts it or one step from the left or the
\* right wall with the velocity CPaddleControl chose there, the brick at rest.

\* The paddle's x and velocity.x: paddleVelocity steps away from the middle.
PaddleStates ==
    {<<windowWidth \div 2, 0>>, <<windowWidth \div 2, paddleVelocity>>,
     <<windowWidth \div 2 - 616 * paddleVelocity, -paddleVelocity>>,
     <<windowWidth \div 2 + 616 * paddleVelocity, paddleVelocity>>}

\* The world with the paddle (entity p) at x with velocity.x vx, as its
\* components' update() of the step before left it.
paddleAt(W, p, x, vx) ==
    [W EXCEPT !.heap[p].components =
        [i \in DOMAIN @ |->
            CASE @[i].type = "CPosition" -> [@[i] EXCEPT !.position = <<x, @[2]>>]
              [] @[i].type = "CPhysics" -> [@[i] EXCEPT !.velocity = <<vx, 0>>]
              [] @[i].type = "CRectangle" -> [@[i] EXCEPT !.shapePos = <<x, @[2]>>]
              [] OTHER -> @[i]]]

PhysicsInit ==
    /\ \E W0 \in {PlayWorld} :
       \E b \in Range(getEntitiesByGroup(W0.groupedEntities, GBall)),
          p \in Range(getEntitiesByGroup(W0.groupedEntities, GPaddle)) :
       \E bp \in PlayXs \X PlayYs, v \in PlayVelocities, ps \in PaddleStates :
       \E W \in {paddleAt(ballAt(W0, b, bp, v), p, ps[1], ps[2])} :
          /\ lastID = W.R.lastID
          /\ typeID = W.R.typeID
          /\ entities = W.entities
          /\ groupedEntities = W.groupedEntities
          /\ heap = W.heap
          /\ status = W.status
    /\ lastOp = Call("Game", <<>>, NULL)
    /\ game = NoGame

\* getComponent<CPhysics>().update(mFT) of entity e
PhysicsUpdate(e, mFT) ==
    /\ status = "ok"
    /\ lastOp.op = "Game"
    /\ \E T \in {CPhysicsUpdateTrace(heap[e].components, physOf(heap[e]), mFT)} :
          /\ heap' = [heap EXCEPT ![e].components = T.comps]
          /\ lastOp' = Call("physicsUpdate", <<e, mFT>>, T.calls)
    /\ UNCHANGED <<lastID, typeID, entities, groupedEntities, status, game>>

NextPhysics == \E e \in Stored : PhysicsUpdate(e, ftStep)

SpecPhysics == PhysicsInit /\ [][NextPhysics]_vars

\* ------------------------------------------------------------------ attaching components
\* Entities built one after the other, each one component at a time in any
\* order, next to the entities the create functions of Game build.

\* The variables as the world the create functions work on.
World ==
    [entities |-> entities, heap |-> heap, groupedEntities |-> groupedEntities,
     R |-> Registry, status |-> status]

\* The world W a create function left, with the call recorded.
Created(op, W) ==
    /\ status = "ok"
    /\ Len(heap) < MaxEntities
    /\ entities' = W.entities
    /\ heap' = W.heap
    /\ groupedEntities' = W.groupedEntities
    /\ typeID' = W.R.typeID
    /\ lastID' = W.R.lastID
    /\ status' = W.status
    /\ lastOp' = Call(op, <<>>, Len(W.heap))
    /\ UNCHANGED game

CreateBall == \E W \in {createBall(World)} : Created("createBall", W)

CreateBrick == \E W \in {createBrick(World, BrickPosition(0))} : Created("createBrick", W)

CreatePaddle == \E W \in {createPaddle(World)} : Created("createPaddle", W)

NextAttach ==
    \/ AddEntity
    \/ \E e \in Stored \cap {Len(heap)}, T \in ComponentTypes : AddComponent(e, T)
    \/ CreateBall
    \/ CreateBrick
    \/ CreatePaddle

SpecAttach == ManagerInit /\ [][NextAttach]_vars

\* ------------------------------------------------------------------ the paddle at the walls
\* A moment of play with the keys free: PaddleSteps fixed steps of one frame,
\* the paddle at rest in the middle or where steps of paddleVelocity from the
\* middle take it next to the left or the right wall.

\* Fixed steps of the moment, each with any keys held.
PaddleSteps == 3

PaddleXs ==
    {windowWidth \div 2}
    \cup {windowWidth \div 2 - k * paddleVelocity : k \in 615..617}
    \cup {windowWidth \div 2 + k * paddleVelocity : k \in 615..617}

PaddleInit ==
    /\ \E W0 \in {PlayWorld} :
       \E p \in Range(getEntitiesByGroup(W0.groupedEntities, GPaddle)) :
       \E x \in PaddleXs :
       \E W \in {paddleAt(W0, p, x, 0)} :
          /\ lastID = W.R.lastID
          /\ typeID = W.R.typeID
          /\ entities = W.entities
          /\ groupedEntities = W.groupedEntities
          /\ heap = W.heap
          /\ status = W.status
    /\ lastOp = Call("updatePhase", <<>>, NULL)
    /\ game = [pc |-> "slice", running |-> TRUE, lastFrametime |-> PaddleSteps * ftSlice,
               currentSlice |-> PaddleSteps * ftSlice, window |-> <<>>, steps |-> 0,
               keySteps |-> MaxKeySteps - PaddleSteps, keys |-> {},
               killed |-> {}, killedStep |-> {},
               accumulated |-> PaddleSteps * ftSlice, frameSteps |-> 0]

SpecPaddle == PaddleInit /\ [][NextPlay]_vars

\* ------------------------------------------------------------------ claims
RegistryNext == [typeID |-> typeID', lastID |-> lastID']

GroupCalls == {"addGroup", "delGroup", "hasGroup", "getEntitiesByGroup"}

\* C1: destroy() makes isAlive() false at once, a stored entity stays in storage
\* through every operation other than refresh(), and it is gone after refresh().
C1_StoredUntilRefresh ==
    [][/\ lastOp'.op = "destroy" => ~isAlive(heap'[lastOp'.arg[1]])
       /\ lastOp'.op # "refresh" => \A e \in Stored : e \in Range(entities')
       /\ (lastOp'.op = "refresh" /\ status' = "ok") =>
              \A e \in Stored : ~isAlive(heap[e]) => e \notin Range(entities')]_vars

\* C2: right after refresh(), an entity is in the index of group g exactly when
\* it is stored, alive and a member of g.
C2_IndexAfterRefresh ==
    lastOp.op = "refresh" =>
        \A g \in Groups, e \in DOMAIN heap :
            (e \in Range(getEntitiesByGroup(groupedEntities, g)))
                <=> (e \in Stored /\ isAlive(heap[e]) /\ hasGroup(heap[e], g))

C2_Witness ==
    /\ lastOp.op = "refresh"
    /\ \E e \in DOMAIN heap : IsFreed(heap[e])
    /\ \E e \in Stored : heap[e].groupBitset = {0}
                         /\ Len(getEntitiesByGroup(groupedEntities, 0)) = 2
    /\ getEntitiesByGroup(groupedEntities, 1) = <<>>

\* C3: every entry of every group index refers to an entity that is in storage.
C3_IndexEntriesStored ==
    \A g \in Groups : Range(groupedEntities[g]) \subseteq Stored

\* C4: Manager.update reaches every entity that is in storage when it is called,
\* the dead ones included.
C4_UpdateReachesAllStored ==
    [][lastOp'.op = "update" => lastOp'.ret = entities]_vars

Has(h, R, e, T) == hasComponent(h[e], R, T).ret
Get(h, R, e, T) == getComponent(h[e], R, T).ret

\* C6: hasComponent<T>() is false before addComponent<T>() and true once it has
\* returned, and getComponent<T>() gives the instance addComponent<T>() returned,
\* whatever is attached or queried afterwards.
C6_ComponentStable ==
    [][\A e \in DOMAIN heap', T \in ComponentTypes :
        /\ (lastOp'.op = "addEntity" /\ lastOp'.ret = e) =>
               ~Has(heap', RegistryNext, e, T)
        /\ (lastOp'.op = "addComponent" /\ lastOp'.arg = <<e, T>> /\ status' = "ok") =>
               /\ ~Has(heap, Registry, e, T)
               /\ Has(heap', RegistryNext, e, T)
               /\ Get(heap', RegistryNext, e, T) = lastOp'.ret
               /\ heap'[e].components[lastOp'.ret].type = T
        /\ (e \in DOMAIN heap /\ Has(heap, Registry, e, T) /\ status' = "ok") =>
               /\ Has(heap', RegistryNext, e, T)
               /\ Get(heap', RegistryNext, e, T) = Get(heap, Registry, e, T)]_vars

C6_Witness ==
    /\ status = "ok"
    /\ lastOp.op = "getComponent"
    /\ lastOp.arg[2] = "CPosition"
    /\ lastOp.ret = 1
    /\ Len(heap[lastOp.arg[1]].components) = 3
    /\ typeID["CPosition"] = 2

\* C7: getComponent<T>() without a T, and addComponent<T>() with a T already
\* attached, end in an assertion failure; getComponent returns nothing but the
\* attached T, and the refused addComponent leaves the entity as it was.
C7_ContractAsserted ==
    [][\A e \in DOMAIN heap, T \in ComponentTypes :
        /\ (lastOp'.op = "getComponent" /\ lastOp'.arg = <<e, T>>) =>
               IF Has(heap, Registry, e, T)
               THEN /\ status' = "ok"
                    /\ lastOp'.ret \in 1..Len(heap[e].components)
                    /\ heap[e].components[lastOp'.ret].type = T
               ELSE status' = "assert"
        /\ (lastOp'.op = "addComponent" /\ lastOp'.arg = <<e, T>>
                /\ Has(heap, Registry, e, T)) =>
               (status' = "assert" /\ heap' = heap)]_vars

C7_Witness ==
    /\ status = "assert"
    /\ lastOp.op = "addComponent"
    /\ lastOp.arg[2] = "CPosition"
    /\ Len(heap[lastOp.arg[1]].components) = 2

\* C8: a group ID (or component type ID) beyond the fixed capacity is caught by
\* an assertion.
C8_CapacityAsserted ==
    [][(lastOp'.op \in GroupCalls /\ lastOp'.arg[Len(lastOp'.arg)] >= maxGroups)
           => status' = "assert"]_vars

\* C9: a type's first call gets the next unused ID (0, 1, 2, ... in order of first
\* use), later calls return that ID, and no two types share one.
C9_StableTypeIDs ==
    [][/\ \A T \in DOMAIN typeID : T \in DOMAIN typeID' /\ typeID'[T] = typeID[T]
       /\ \A T \in DOMAIN typeID' \ DOMAIN typeID :
              typeID'[T] = Cardinality(DOMAIN typeID)
       /\ \A T1, T2 \in DOMAIN typeID' : T1 # T2 => typeID'[T1] # typeID'[T2]
       /\ lastOp'.op = "getComponentTypeID" =>
              /\ lastOp'.arg[1] \in DOMAIN typeID'
              /\ lastOp'.ret = typeID'[lastOp'.arg[1]]]_vars

C9_Witness ==
    /\ lastOp.op = "getComponentTypeID"
    /\ lastOp.arg = <<"CPaddleControl">>
    /\ lastOp.ret = 0
    /\ DOMAIN typeID = ComponentTypes
    /\ typeID["CCircle"] = 4
    /\ lastID = 5

\* C10 as stated: draw() is broadcast to every stored entity, and every brick
\* destroyed during a fixed step of a frame is drawn by that frame's drawPhase.
C10_DestroyedDrawnSameFrame ==
    lastOp.op = "drawPhase" =>
        /\ game.window = entities
        /\ \A e \in game.killed : e \in Range(game.window)

\* C10, amended: draw() is broadcast to every stored entity, dead or alive; of the
\* bricks destroyed during a frame, drawPhase draws those destroyed in the frame's
\* last fixed step and not those destroyed in an earlier one, which the refresh()
\* of the following step has removed; a removed entity is never drawn.
C10_DrawnUntilRefresh ==
    lastOp.op = "drawPhase" =>
        /\ game.window = entities
        /\ \A e \in game.killed :
               e \in Range(game.window) <=> e \in game.killedStep
        /\ \A e \in DOMAIN heap : IsFreed(heap[e]) => e \notin Range(game.window)

C10_Witness ==
    /\ lastOp.op = "drawPhase"
    /\ \E e \in game.killedStep :
          /\ ~IsFreed(heap[e])
          /\ ~isAlive(heap[e])
          /\ hasGroup(heap[e], GBrick)
          /\ e \in Range(game.window)

\* C11: addGroup(g) sets the entity's bit and puts it in the index of g at once;
\* delGroup(g) and destroy() change the entity's own flag only, the indices keep
\* the entity; refresh() is what takes it out of them.
C11_AsymmetricGroupSync ==
    [][/\ (lastOp'.op = "addGroup" /\ status' = "ok") =>
              /\ hasGroup(heap'[lastOp'.arg[1]], lastOp'.arg[2])
              /\ lastOp'.arg[1] \in
                     Range(getEntitiesByGroup(groupedEntities', lastOp'.arg[2]))
       /\ (lastOp'.op = "delGroup" /\ status' = "ok") =>
              /\ ~hasGroup(heap'[lastOp'.arg[1]], lastOp'.arg[2])
              /\ heap' = [heap EXCEPT ![lastOp'.arg[1]].groupBitset =
                                         @ \ {lastOp'.arg[2]}]
              /\ groupedEntities' = groupedEntities
              /\ entities' = entities
       /\ lastOp'.op = "destroy" =>
              /\ heap' = [heap EXCEPT ![lastOp'.arg[1]].alive = FALSE]
              /\ groupedEntities' = groupedEntities
              /\ entities' = entities
       /\ (lastOp'.op = "refresh" /\ status' = "ok") =>
              \A g \in Groups : \A e \in Range(groupedEntities[g]) :
                  (~isAlive(heap[e]) \/ ~hasGroup(heap[e], g))
                      => e \notin Range(groupedEntities'[g])]_vars

\* After delGroup the entity has lost the bit and is still listed.
C11_Witness ==
    /\ lastOp.op = "delGroup"
    /\ status = "ok"
    /\ ~hasGroup(heap[lastOp.arg[1]], lastOp.arg[2])
    /\ isAlive(heap[lastOp.arg[1]])
    /\ lastOp.arg[1] \in Range(getEntitiesByGroup(groupedEntities, lastOp.arg[2]))

\* C12: on the fixed step in which a live brick's box comes to overlap the ball's,
\* the collision pass leaves the brick not alive, whichever side the ball bounces
\* to, and still in the GBrick index and in storage; the next refresh() takes it
\* out of both.
C12_BrickDestroyedThenRefreshed ==
    [][/\ (lastOp'.op = "collide" /\ status' = "ok") =>
              \A k \in Range(getEntitiesByGroup(groupedEntities, GBrick)) :
              \A b \in Range(getEntitiesByGroup(groupedEntities, GBall)) :
                  (isAlive(heap[k]) /\ touching(heap, k, b)) =>
                      /\ ~isAlive(heap'[k])
                      /\ k \in Range(getEntitiesByGroup(groupedEntities', GBrick))
                      /\ k \in Range(entities')
       /\ lastOp'.op = "refresh" =>
              \A k \in Range(getEntitiesByGroup(groupedEntities, GBrick)) :
                  ~isAlive(heap[k]) =>
                      /\ k \notin Range(getEntitiesByGroup(groupedEntities', GBrick))
                      /\ k \notin Range(entities')]_vars

\* A brick the ball reached from the side is gone after the refresh() that followed.
C12_Witness ==
    /\ lastOp.op = "refresh"
    /\ \E k \in DOMAIN heap :
          /\ IsFreed(heap[k])
          /\ k \notin Range(getEntitiesByGroup(groupedEntities, GBrick))
          /\ k \notin Range(entities)
    /\ \E b \in Range(getEntitiesByGroup(groupedEntities, GBall)) :
          Abs(physY(heap[b].components, physOf(heap[b])) - PlayBrick[2]) <= blockHeight \div 2

\* The velocity of entity b's CPhysics in heap h, and its box.
velocityOf(h, b) == h[b].components[physOf(h[b])].velocity
leftOf(h, b) == physLeft(h[b].components, physOf(h[b]))
rightOf(h, b) == physRight(h[b].components, physOf(h[b]))
topOf(h, b) == physTop(h[b].components, physOf(h[b]))
bottomOf(h, b) == physBottom(h[b].components, physOf(h[b]))

overlapsOf(h, k, b) ==
    [left   |-> rightOf(h, b) - leftOf(h, k),
     right  |-> rightOf(h, k) - leftOf(h, b),
     top    |-> bottomOf(h, b) - topOf(h, k),
     bottom |-> bottomOf(h, k) - topOf(h, b)]

Smaller(x, y) == IF Abs(x) < Abs(y) THEN Abs(x) ELSE Abs(y)

\* C14: when the boxes overlap, testCollisionBB negates the ball's velocity on the
\* axis with the shallower penetration and leaves the other component as it was,
\* so both magnitudes stay; when they do not overlap it changes nothing and the
\* brick stays alive.
C14_BounceNegatesShallowerAxis ==
    [][lastOp'.op = "testCollisionBB" =>
          LET k == lastOp'.arg[1]
              b == lastOp'.arg[2]
              o == overlapsOf(heap, k, b)
              depthX == Smaller(o.left, o.right)
              depthY == Smaller(o.top, o.bottom)
              v == velocityOf(heap, b)
              w == velocityOf(heap', b)
          IN  IF touching(heap, k, b)
              THEN /\ depthX < depthY => w = <<-v[1], v[2]>>
                   /\ depthY < depthX => w = <<v[1], -v[2]>>
                   /\ depthX = depthY => w \in {<<-v[1], v[2]>>, <<v[1], -v[2]>>}
              ELSE heap' = heap]_vars

\* The boxes of entities a and b overlap or touch on both axes.
boxesMeet(h, a, b) ==
    /\ rightOf(h, a) >= leftOf(h, b)
    /\ leftOf(h, a) <= rightOf(h, b)
    /\ bottomOf(h, a) >= topOf(h, b)
    /\ topOf(h, a) <= bottomOf(h, b)

\* C15: when the paddle's and the ball's boxes overlap, testCollisionPB leaves the
\* ball with vertical velocity -ballVelocity whatever it was, and with horizontal
\* velocity -ballVelocity if the ball's centre is strictly left of the paddle's
\* and ballVelocity otherwise; with no overlap the velocity is as it was. Nothing
\* else changes.
C15_PaddleBounce ==
    [][lastOp'.op = "testCollisionPB" =>
          LET p == lastOp'.arg[1]
              b == lastOp'.arg[2]
              w == IF ~boxesMeet(heap, p, b) THEN velocityOf(heap, b)
                   ELSE <<IF centreOf(heap, b)[1] < centreOf(heap, p)[1]
                          THEN -ballVelocity ELSE ballVelocity,
                          -ballVelocity>>
          IN  /\ status' = "ok"
              /\ heap' = [heap EXCEPT ![b].components[physOf(heap[b])].velocity = w]]_vars

\* The ball met the paddle centre on centre, falling to the left, and leaves up and right.
C15_Witness ==
    /\ lastOp.op = "testCollisionPB"
    /\ boxesMeet(heap, lastOp.arg[1], lastOp.arg[2])
    /\ centreOf(heap, lastOp.arg[2])[1] = centreOf(heap, lastOp.arg[1])[1]
    /\ velocityOf(heap, lastOp.arg[2]) = <<ballVelocity, -ballVelocity>>

\* C16: isIntersecting(a, b) is true exactly when a.right >= b.left, a.left <=
\* b.right, a.bottom >= b.top and a.top <= b.bottom, so boxes that share an edge
\* or a corner intersect, and it gives the same answer for (b, a).
C16_IntersectingSymmetric ==
    lastOp.op = "isIntersecting" =>
        /\ lastOp.ret = boxesMeet(heap, lastOp.arg[1], lastOp.arg[2])
        /\ lastOp.ret = touching(heap, lastOp.arg[2], lastOp.arg[1])

\* The ball's bottom right corner is the brick's top left corner, and they intersect.
C16_Witness ==
    /\ lastOp.op = "isIntersecting"
    /\ lastOp.ret
    /\ rightOf(heap, lastOp.arg[1]) = leftOf(heap, lastOp.arg[2])
    /\ bottomOf(heap, lastOp.arg[1]) = topOf(heap, lastOp.arg[2])
    /\ lastOp.arg[1] \in Range(getEntitiesByGroup(groupedEntities, GBall))
    /\ lastOp.arg[2] \in Range(getEntitiesByGroup(groupedEntities, GBrick))

\* C19: testCollisionBB compares with strict less-than. The ball is sent left only
\* if the left overlap is strictly the smaller, so equal left and right overlaps
\* choose the right; it is sent up only if the top overlap is strictly the
\* smaller, so equal top and bottom overlaps choose the bottom; and it bounces
\* horizontally only if the chosen horizontal overlap is strictly the smaller,
\* so equal chosen overlaps bounce it vertically.
C19_StrictTieBreaking ==
    [][(lastOp'.op = "testCollisionBB" /\ touching(heap, lastOp'.arg[1], lastOp'.arg[2])) =>
          LET b == lastOp'.arg[2]
              o == overlapsOf(heap, lastOp'.arg[1], b)
              v == velocityOf(heap, b)
              w == velocityOf(heap', b)
              rightChosen == Abs(o.left) >= Abs(o.right)
              bottomChosen == Abs(o.top) >= Abs(o.bottom)
              vertical == Smaller(o.left, o.right) >= Smaller(o.top, o.bottom)
          IN  IF vertical
              THEN /\ w[1] = v[1]
                   /\ IF bottomChosen THEN w[2] > 0 ELSE w[2] < 0
              ELSE /\ w[2] = v[2]
                   /\ IF rightChosen THEN w[1] > 0 ELSE w[1] < 0]_vars

\* The ball overlapped the brick as deep from the left as from the top, with the
\* top and bottom overlaps different: it left upwards.
C19_Witness ==
    /\ lastOp.op = "testCollisionBB"
    /\ touching(heap, lastOp.arg[1], lastOp.arg[2])
    /\ \E o \in {overlapsOf(heap, lastOp.arg[1], lastOp.arg[2])} :
          /\ o.left = o.top
          /\ o.left < o.right
          /\ o.top < o.bottom
          /\ o.left > 0
    /\ velocityOf(heap, lastOp.arg[2])[2] < 0
    /\ ~isAlive(heap[lastOp.arg[1]])

\* C17: updatePhase adds the last frame time to currentSlice and then runs as many
\* fixed steps as whole slices of ftSlice fit in it, leaving the remainder, which
\* is at least 0 and less than ftSlice; a frame time of 0 runs no step; and
\* drawPhase runs once in each pass of the loop of run(), after updatePhase.
C17_FixedStepAccumulator ==
    [][/\ lastOp'.op = "updatePhase" =>
              /\ game'.currentSlice = game.currentSlice + game.lastFrametime
              /\ game'.accumulated = game'.currentSlice
              /\ game'.frameSteps = 0
       /\ lastOp'.op = "collide" =>
              /\ game'.frameSteps = game.frameSteps + 1
              /\ game'.accumulated = game.accumulated
       /\ lastOp'.op \in {"refresh", "update", "updatePhaseEnd"} =>
              /\ game'.frameSteps = game.frameSteps
              /\ game'.accumulated = game.accumulated
       /\ lastOp'.op = "updatePhaseEnd" =>
              /\ game'.frameSteps = game'.accumulated \div ftSlice
              /\ game'.currentSlice = game'.accumulated % ftSlice
              /\ game'.currentSlice >= 0 /\ game'.currentSlice < ftSlice
              /\ game'.lastFrametime = 0 => game'.frameSteps = 0
       /\ lastOp'.op = "drawPhase" => lastOp.op = "updatePhaseEnd"
       /\ lastOp'.op = "inputPhase" => lastOp.op \in {"run", "drawPhase"}
       /\ lastOp.op = "drawPhase" => lastOp'.op = "inputPhase"]_vars

\* A frame of half a slice and then one of two: two steps run and half a slice is left.
C17_Witness ==
    /\ lastOp.op = "updatePhaseEnd"
    /\ game.frameSteps = 2
    /\ game.currentSlice = ftSlice \div 2
    /\ game.accumulated = 2 * ftSlice + ftSlice \div 2

\* C18: every pass of the loop of run() is inputPhase, updatePhase, drawPhase in
\* that order; running becomes false exactly when inputPhase sees the Closed event
\* or the Escape key, the pass in which it does is finished and no other pass is
\* started, so run() returns; and run() returns in no other way.
C18_RunReturnsOnClose ==
    /\ [][/\ lastOp'.op = "inputPhase" =>
                 /\ lastOp.op \in {"run", "drawPhase"}
                 /\ game.running
                 /\ game'.running = ~(lastOp'.arg[1] \/ lastOp'.arg[2])
          /\ lastOp'.op = "updatePhase" => lastOp.op = "inputPhase"
          /\ lastOp'.op = "drawPhase" =>
                 /\ lastOp.op = "updatePhaseEnd"
                 /\ game'.pc = IF game.running THEN "input" ELSE "done"
          /\ lastOp'.op \notin {"run", "inputPhase"} => game'.running = game.running
          /\ game'.pc = "done" => (lastOp'.op = "drawPhase" /\ ~game'.running)
          /\ game.pc = "done" => game'.pc = "done"]_vars
    /\ ((lastOp.op = "inputPhase" /\ ~game.running) ~> (game.pc = "done"))

\* run() has returned after a pass in which fixed steps ran.
C18_Witness ==
    /\ game.pc = "done"
    /\ ~game.running
    /\ lastOp.op = "drawPhase"
    /\ game.steps = MaxSteps

\* C20: a fixed step is refresh(), then update(), then the collision pass. The
\* entities refresh() leaves in the group indices were alive when the step began
\* and are in storage; update() and the collision pass leave the indices as they
\* are; so the collision pass reads only stored, live entities, and a brick
\* destroyed in one step is in no index the collision pass of a later step reads.
C20_StepOrder ==
    [][/\ lastOp'.op = "refresh" =>
              /\ lastOp.op \in {"updatePhase", "collide"}
              /\ \A g \in {GPaddle, GBrick, GBall} :
                 \A e \in Range(getEntitiesByGroup(groupedEntities', g)) :
                     /\ ~IsFreed(heap[e]) /\ isAlive(heap[e])
                     /\ e \in Range(entities')
       /\ lastOp'.op = "update" =>
              /\ lastOp.op = "refresh"
              /\ groupedEntities' = groupedEntities
       /\ lastOp'.op = "collide" =>
              /\ lastOp.op = "update"
              /\ groupedEntities' = groupedEntities
              /\ status' = "ok"
              /\ \A g \in {GPaddle, GBrick, GBall} :
                 \A e \in Range(getEntitiesByGroup(groupedEntities, g)) :
                     /\ e \in Range(entities)
                     /\ ~IsFreed(heap[e]) /\ isAlive(heap[e])
                     /\ e \notin game.killed]_vars

\* The collision pass of the step after the one that destroyed a brick has run.
C20_Witness ==
    /\ lastOp.op = "collide"
    /\ game.killedStep = {}
    /\ \E k \in game.killed :
          /\ IsFreed(heap[k])
          /\ k \notin Range(getEntitiesByGroup(groupedEntities, GBrick))

\* The sides CPhysics::update passes to the callback when the box of entity e
\* of heap h has the position the update left it at.
crossedHorizontal(h, e) ==
    IF leftOf(h, e) < 0 THEN << <<1, 0>> >>
    ELSE IF rightOf(h, e) > windowWidth THEN << <<-1, 0>> >>
    ELSE <<>>

crossedVertical(h, e) ==
    IF topOf(h, e) < 0 THEN << <<0, 1>> >>
    ELSE IF bottomOf(h, e) > windowHeight THEN << <<0, -1>> >>
    ELSE <<>>

\* C21: CPhysics::update of an entity moves its position by velocity * mFT;
\* with a callback set it then calls it with (1,0) iff left() < 0, otherwise
\* (-1,0) iff right() > windowWidth, and after that with (0,1) iff top() < 0,
\* otherwise (0,-1) iff bottom() > windowHeight, all measured at the moved
\* position, so at most once per axis; with no callback set no call is made
\* and nothing but the position changes.
C21_PhysicsUpdate ==
    [][lastOp'.op = "physicsUpdate" =>
        LET e == lastOp'.arg[1]
            i == physOf(heap[e])
            v == velocityOf(heap, e)
        IN  /\ centreOf(heap', e) = <<centreOf(heap, e)[1] + v[1] * lastOp'.arg[2],
                                      centreOf(heap, e)[2] + v[2] * lastOp'.arg[2]>>
            /\ heap[e].components[i].onOutOfBounds # NULL =>
                   lastOp'.ret = crossedHorizontal(heap', e) \o crossedVertical(heap', e)
            /\ heap[e].components[i].onOutOfBounds = NULL =>
                   /\ lastOp'.ret = <<>>
                   /\ velocityOf(heap', e) = v
                   /\ heap'[e].components[i] = heap[e].components[i]
            /\ \A o \in DOMAIN heap : o # e => heap'[o] = heap[o]]_vars

\* a ball that left the window through a corner got one call per axis
C21_Witness ==
    /\ lastOp.op = "physicsUpdate"
    /\ Len(lastOp.ret) = 2
    /\ heap[lastOp.arg[1]].components[physOf(heap[lastOp.arg[1]])].onOutOfBounds # NULL

\* The sibling a component resolved in init(): an index of its entity's
\* components, or NULL.
siblingOf(c) == IF c.type = "CPaddleControl" THEN c.cPhysics ELSE c.cPosition

CreateCalls == {"createBall", "createBrick", "createPaddle"}

\* C22: addComponent<T>() on an entity without a T records the slot and the
\* bit of T and then runs T's init(): where init() resolves a sibling that is
\* not attached the call ends in an assertion failure with the slot and the
\* bit already recorded, and otherwise it returns with the sibling resolved;
\* createBall, createBrick and createPaddle end without a failure, each
\* component of the new entity holding its sibling.
C22_InitAfterRecording ==
    [][/\ \A e \in DOMAIN heap, T \in ComponentTypes :
            (lastOp'.op = "addComponent" /\ lastOp'.arg = <<e, T>>
                 /\ ~Has(heap, Registry, e, T)) =>
                LET i == Len(heap[e].components) + 1
                    S == InitSibling(T)
                    recorded == /\ Len(heap'[e].components) = i
                                /\ heap'[e].components[i].type = T
                                /\ Has(heap', RegistryNext, e, T)
                                /\ heap'[e].componentArray[typeID'[T]] = i
                IN  IF S = NULL THEN status' = "ok" /\ recorded
                    ELSE IF ~Has(heap, Registry, e, S)
                    THEN /\ status' = "assert"
                         /\ recorded
                         /\ siblingOf(heap'[e].components[i]) = NULL
                    ELSE /\ status' = "ok"
                         /\ recorded
                         /\ lastOp'.ret = i
                         /\ siblingOf(heap'[e].components[i]) = Get(heap, Registry, e, S)
       /\ lastOp'.op \in CreateCalls =>
              /\ status' = "ok"
              /\ \A i \in DOMAIN heap'[lastOp'.ret].components :
                     LET c == heap'[lastOp'.ret].components[i]
                     IN  InitSibling(c.type) # NULL =>
                             /\ siblingOf(c) \in 1..(i - 1)
                             /\ heap'[lastOp'.ret].components[siblingOf(c)].type
                                    = InitSibling(c.type)]_vars

\* CPaddleControl attached to an entity that has a CPosition and no CPhysics
C22_Witness ==
    /\ status = "assert"
    /\ lastOp.op = "addComponent"
    /\ lastOp.arg[2] = "CPaddleControl"
    /\ \E e \in {lastOp.arg[1]} :
          /\ Has(heap, Registry, e, "CPaddleControl")
          /\ Has(heap, Registry, e, "CPosition")
          /\ ~Has(heap, Registry, e, "CPhysics")

\* The position component of the box of entity e
positionOf(h, e) == h[e].components[h[e].components[physOf(h[e])].cPosition].position

\* C23: Manager::update calls the stored entities in creation order and each
\* entity its components in attach order, position before physics before
\* shape before paddle control: after it every shape of every stored entity is
\* at the entity's position, and the paddle has moved by the velocity it had
\* before the update, not by the one CPaddleControl chose in it.
C23_UpdateOrder ==
    [][lastOp'.op = "update" =>
        /\ lastOp'.ret = entities'
        /\ \A i \in 1..(Len(entities') - 1) : entities'[i] < entities'[i + 1]
        /\ \A e \in Range(entities') :
               /\ \A i \in DOMAIN heap'[e].components :
                      LET c == heap'[e].components[i]
                      IN  c.type \in {"CCircle", "CRectangle"} =>
                              /\ c.cPosition < physOf(heap'[e])
                              /\ physOf(heap'[e]) < i
                              /\ c.shapePos = positionOf(heap', e)
               /\ e \in Range(getEntitiesByGroup(groupedEntities, GPaddle)) =>
                      positionOf(heap', e) =
                          <<positionOf(heap, e)[1] + velocityOf(heap, e)[1] * ftStep,
                            positionOf(heap, e)[2] + velocityOf(heap, e)[2] * ftStep>>]_vars

\* the first step of a moment, Left held: the paddle has its velocity and
\* has not moved yet, and the ball's shape has moved with the ball
C23_Witness ==
    /\ lastOp.op = "update"
    /\ game.frameSteps = 0
    /\ "Left" \in game.keys
    /\ \E p \in Range(getEntitiesByGroup(groupedEntities, GPaddle)) :
          /\ velocityOf(heap, p) = <<-paddleVelocity, 0>>
          /\ positionOf(heap, p)[1] = windowWidth \div 2
    /\ \E b \in Range(getEntitiesByGroup(groupedEntities, GBall)) :
          positionOf(heap, b) # <<windowWidth \div 2, windowHeight \div 2>>

\* Each axis of the velocity of every ball of heap h has magnitude ballVelocity.
ballSpeedKept(h) ==
    \A b \in Range(getEntitiesByGroup(groupedEntities, GBall)) :
        /\ Abs(velocityOf(h, b)[1]) = ballVelocity
        /\ Abs(velocityOf(h, b)[2]) = ballVelocity

\* C24: each axis of the ball's velocity has magnitude ballVelocity in every
\* state of the game: no statement of a fixed step (refresh, update with its
\* boundary bounces, the paddle and brick collisions) takes a ball that has
\* these magnitudes to one that has not.
C24_BallSpeedKept ==
    [][ballSpeedKept(heap) => ballSpeedKept(heap')]_vars

\* Every paddle's box reaches less than one step of movement out of the
\* window, and its velocity.x is -paddleVelocity, 0 or paddleVelocity.
paddleNearWindow ==
    \A p \in Range(getEntitiesByGroup(groupedEntities, GPaddle)) :
        /\ leftOf(heap, p) > -(paddleVelocity * ftStep)
        /\ rightOf(heap, p) < windowWidth + paddleVelocity * ftStep
        /\ velocityOf(heap, p)[1] \in {-paddleVelocity, 0, paddleVelocity}

\* C25 as stated: the paddle stays within one step of movement of the window
\* with one of the three velocities, and an update with both keys held never
\* leaves it the velocity of Right.
C25_LeftAlwaysFirst ==
    /\ paddleNearWindow
    /\ (lastOp.op = "update" /\ game.keys = {"Left", "Right"}) =>
           \A p \in Range(getEntitiesByGroup(groupedEntities, GPaddle)) :
               velocityOf(heap, p)[1] # paddleVelocity

\* C25, amended: the paddle stays within one step of movement of the window
\* with one of the three velocities; an update with both keys held leaves it
\* -paddleVelocity while its left edge is greater than 0, and paddleVelocity,
\* from Right, once its left edge is at or beyond 0.
C25_PaddleNearWindow ==
    /\ paddleNearWindow
    /\ (lastOp.op = "update" /\ game.keys = {"Left", "Right"}) =>
           \A p \in Range(getEntitiesByGroup(groupedEntities, GPaddle)) :
               velocityOf(heap, p)[1] =
                   IF leftOf(heap, p) > 0 THEN -paddleVelocity ELSE paddleVelocity

\* both keys held with the paddle's left edge past the left wall
C25_Witness ==
    /\ lastOp.op = "update"
    /\ game.keys = {"Left", "Right"}
    /\ \E p \in Range(getEntitiesByGroup(groupedEntities, GPaddle)) :
          /\ leftOf(heap, p) < 0
          /\ velocityOf(heap, p)[1] = paddleVelocity

====
